---- MODULE Spec2Model ----
(***************************************************************************)
(* A model of src/server.js: the two-slot reading store (previousReading,  *)
(* latestReading), the POST /api/readings handler that coerces a request   *)
(* body into a reading, derives intensity, pitch, roll and alerts and      *)
(* replaces both slots, and the GET /api/latest handler.                   *)
(*                                                                         *)
(* JavaScript values are tagged records [t |-> <typeof>, v |-> <value>],   *)
(* so that typeof tests, the || operator and Number() are computed as      *)
(* JavaScript computes them.  Real-valued results (speed, acceleration,    *)
(* angles) are kept as exact unevaluated quotients over the integers.      *)
(***************************************************************************)
EXTENDS Integers, Sequences, FiniteSets, TLC

VARIABLES previousReading, latestReading, req, res, priorFix, inflight

vars == <<previousReading, latestReading, req, res, priorFix, inflight>>

(***************************************************************************)
(* Bounds of the model.                                                    *)
(***************************************************************************)
\* Date.now() readings are drawn from 0..MaxNow ms and one late instant.
MaxNow == 1
\* Latitudes are multiples of 90 degrees up to 90 * MaxQuarter, longitudes up
\* to 90 * (MaxQuarter + 1).
MaxQuarter == 1
\* Requests the event loop may hold before their handler runs.
MaxInflight == 2

(***************************************************************************)
(* JavaScript values.                                                      *)
(***************************************************************************)
Undef == [t |-> "undefined", v |-> 0]
Null == [t |-> "null", v |-> 0]
NaN == [t |-> "nan", v |-> 0]
Num(n) == [t |-> "number", v |-> n]
Str(s) == [t |-> "string", v |-> s]
Bool(b) == [t |-> "boolean", v |-> b]
Arr == [t |-> "array", v |-> 0]
Vec(x, y, z) == [t |-> "object", x |-> x, y |-> y, z |-> z]
EmptyObject == [t |-> "object"]

\* typeof v === 'number' (NaN is a number to typeof).
IsNumber(v) == v.t \in {"number", "nan"}

\* JavaScript truthiness, as used by ||, && and if.
Truthy(v) ==
  CASE v.t \in {"undefined", "null", "nan"} -> FALSE
    [] v.t = "number" -> v.v # 0
    [] v.t = "string" -> v.v # ""
    [] v.t = "boolean" -> v.v
    [] OTHER -> TRUE

\* a || b
Or(a, b) == IF Truthy(a) THEN a ELSE b

\* o.f : a property read; undefined on a primitive or when the key is missing.
Get(o, f) == IF o.t = "object" /\ f \in DOMAIN o THEN o[f] ELSE Undef

\* Number(v).  The strings of the model are "" and non-numeric text.
ToNumber(v) ==
  CASE v.t = "number" -> v
    [] v.t = "null" -> Num(0)
    [] v.t = "boolean" -> Num(IF v.v THEN 1 ELSE 0)
    [] v.t = "string" /\ v.v = "" -> Num(0)
    [] OTHER -> NaN

\* Math.abs
MathAbs(n) == IF n.t = "nan" THEN NaN ELSE Num(IF n.v < 0 THEN -n.v ELSE n.v)

\* Math.max on integers
MathMax(a, b) == IF a >= b THEN a ELSE b

\* JSON.stringify of a number: NaN is written as null.
JsonNumber(n) == IF n.t = "nan" THEN Null ELSE n

(***************************************************************************)
(* Kinematics.  Angles in degrees are multiples of 90; radians are held as *)
(* a count of quarter turns (pi/2), where sin and cos are exact.           *)
(***************************************************************************)
R == 6371000
\* Math.PI * 10^5, truncated
PiE5 == 314159
\* counts per g
scale == 16384

toRadians(deg) == deg \div 90

\* 2 * sin(q/2)^2 for an angle of q quarter turns: 0, 1, 2, 1, 0, ...
TwiceSinHalfSquared(q) ==
  LET m == q % 4 IN IF m = 0 THEN 0 ELSE IF m = 2 THEN 2 ELSE 1

\* cos of q quarter turns: 1, 0, -1, 0, 1, ...
MathCos(q) ==
  LET m == q % 4 IN IF m = 0 THEN 1 ELSE IF m = 2 THEN -1 ELSE 0

\* 2 * atan2(sqrt(a), sqrt(1 - a)) in quarter turns, a given as 2a in {0, 1, 2}:
\* a = 0 gives 0, a = 1/2 gives pi/2, a = 1 gives pi.
CentralAngle(a2) == IF a2 <= 0 THEN 0 ELSE IF a2 >= 2 THEN 2 ELSE 1

\* Haversine distance in whole meters: R * c with c in quarter turns, pi taken
\* to five decimals and the product truncated.
haversineDistanceMeters(lat1, lon1, lat2, lon2) ==
  LET dLat == toRadians(lat2 - lat1)
      dLon == toRadians(lon2 - lon1)
      a2 == TwiceSinHalfSquared(dLat)
              + MathCos(toRadians(lat1)) * MathCos(toRadians(lat2))
                  * TwiceSinHalfSquared(dLon)
      c == CentralAngle(a2)
  IN  (((R \div 1000) * PiE5) \div 200) * c

(***************************************************************************)
(* POST /api/readings: coercion of the body into a reading.                *)
(***************************************************************************)
numberOrNull(v) == IF IsNumber(v) THEN v ELSE Null

\* an accel or gyro value kept only when it is an object with numeric x, y, z
vectorOrNull(v) ==
  IF v.t = "object" /\ IsNumber(Get(v, "x")) /\ IsNumber(Get(v, "y"))
       /\ IsNumber(Get(v, "z"))
    THEN v ELSE Null

\* the coercion with accel and gyro validated like the scalar fields
reading_ValidatedVectors(body, now) ==
  [t |-> "object",
   temperature |-> numberOrNull(Get(body, "temperature")),
   humidity |-> numberOrNull(Get(body, "humidity")),
   accel |-> vectorOrNull(Get(body, "accel")),
   gyro |-> vectorOrNull(Get(body, "gyro")),
   lat |-> numberOrNull(Get(body, "lat")),
   lon |-> numberOrNull(Get(body, "lon")),
   timestamp |-> now]

reading(body, now) ==
  [t |-> "object",
   temperature |-> numberOrNull(Get(body, "temperature")),
   humidity |-> numberOrNull(Get(body, "humidity")),
   accel |-> Or(Get(body, "accel"), Null),
   gyro |-> Or(Get(body, "gyro"), Null),
   lat |-> numberOrNull(Get(body, "lat")),
   lon |-> numberOrNull(Get(body, "lon")),
   timestamp |-> now]

(***************************************************************************)
(* Movement intensity.  A speed is the quotient meters / (ms / 1000), an   *)
(* acceleration is max(0, sqrt(sumsq) / scale - 1) * 9.80665; both are     *)
(* kept unevaluated.                                                       *)
(***************************************************************************)
gpsBranch(r, prev) ==
  /\ r.lat # Null
  /\ r.lon # Null
  /\ Truthy(prev)
  /\ prev.lat # Null
  /\ prev.lon # Null

\* the elapsed time without its floor of 1 ms
dtMs_NoFloor(r, prev) == r.timestamp - prev.timestamp

dtMs(r, prev) == MathMax(1, r.timestamp - prev.timestamp)

dMeters(r, prev) ==
  haversineDistanceMeters(prev.lat.v, prev.lon.v, r.lat.v, r.lon.v)

gpsIntensity(r, prev) ==
  [t |-> "number", v |-> [meters |-> dMeters(r, prev), ms |-> dtMs(r, prev)]]

accelBranch(r) == Truthy(r.accel) /\ IsNumber(Get(r.accel, "x"))

ax(r) == ToNumber(Get(r.accel, "x"))
ay(r) == ToNumber(Get(r.accel, "y"))
az(r) == ToNumber(Get(r.accel, "z"))

\* sqrt(x*x + y*y + z*z) as the sum under the root; NaN when a term is.
SumSq(x, y, z) ==
  IF x.t = "nan" \/ y.t = "nan" \/ z.t = "nan" THEN NaN
  ELSE Num(x.v * x.v + y.v * y.v + z.v * z.v)

accelIntensity(r) ==
  LET s == SumSq(ax(r), ay(r), az(r))
  IN  IF s.t = "nan" THEN NaN ELSE [t |-> "number", v |-> [sumsq |-> s.v]]

\* intensity and intensityUnit after the GPS block (lines 69-85)
gpsResult(r, prev) ==
  IF gpsBranch(r, prev)
    THEN [intensity |-> gpsIntensity(r, prev), intensityUnit |-> Str("m_s")]
    ELSE [intensity |-> Null, intensityUnit |-> Null]

\* the accelerometer block overwriting whatever the GPS block computed
intensityResult_AccelFirst(r, prev) ==
  IF accelBranch(r)
    THEN [intensity |-> accelIntensity(r), intensityUnit |-> Str("m_s2")]
    ELSE gpsResult(r, prev)

\* ... and after the accelerometer block, which fills them only when the
\* GPS block left intensity null (lines 87-102)
intensityResult(r, prev) ==
  LET g == gpsResult(r, prev)
  IN  IF accelBranch(r) /\ g.intensity = Null
        THEN [intensity |-> accelIntensity(r), intensityUnit |-> Str("m_s2")]
        ELSE g

intensity(r, prev) == intensityResult(r, prev).intensity

intensityUnit(r, prev) == intensityResult(r, prev).intensityUnit

(***************************************************************************)
(* Orientation.  An angle is atan2(opp, adj) in degrees, kept unevaluated; *)
(* floored says that the 1e-9 floor replaced a zero or NaN adjacent side.  *)
(***************************************************************************)
pitch(r) ==
  IF ~accelBranch(r) THEN Null
  ELSE LET d == SumSq(Num(0), ay(r), az(r))
           fl == ~Truthy(d)
       IN  [t |-> "number",
            v |-> [opp |-> ax(r).v, adj |-> IF fl THEN 0 ELSE d.v, floored |-> fl]]

roll(r) ==
  IF ~accelBranch(r) THEN Null
  ELSE IF ay(r).t = "nan" THEN Null
  ELSE LET fl == ~Truthy(az(r))
       IN  [t |-> "number",
            v |-> [opp |-> -(ay(r).v), adj |-> IF fl THEN 0 ELSE az(r).v,
                   floored |-> fl]]

(***************************************************************************)
(* Alerts, appended in the order of the code.                              *)
(***************************************************************************)
ExtremeTemperature == "DANGEROUS: Temperature extremely high"
HighTemperature == "High temperature detected"
BelowFreezing == "Temperature below freezing"
HumidityHigh == "Humidity critically high"
HumidityLow == "Humidity very low"
HighSpeed == "Sudden high movement speed detected"
Tilted == "Device might be tilted or falling"
Shock == "Sudden impact/shock detected!"

\* a > k and a < k on a number that may be NaN (every comparison with NaN is false)
Gt(a, k) == a.t = "number" /\ a.v > k
Lt(a, k) == a.t = "number" /\ a.v < k

\* the temperature chain with >= at the upper threshold
temperatureAlerts_Inclusive(r) ==
  IF r.temperature # Null
    THEN IF r.temperature.v >= 50 THEN <<ExtremeTemperature>>
         ELSE IF Gt(r.temperature, 40) THEN <<HighTemperature>>
         ELSE IF Lt(r.temperature, 0) THEN <<BelowFreezing>>
         ELSE <<>>
    ELSE <<>>

temperatureAlerts(r) ==
  IF r.temperature # Null
    THEN IF Gt(r.temperature, 50) THEN <<ExtremeTemperature>>
         ELSE IF Gt(r.temperature, 40) THEN <<HighTemperature>>
         ELSE IF Lt(r.temperature, 0) THEN <<BelowFreezing>>
         ELSE <<>>
    ELSE <<>>

humidityAlerts(r) ==
  IF r.humidity # Null
    THEN IF Gt(r.humidity, 90) THEN <<HumidityHigh>>
         ELSE IF Lt(r.humidity, 20) THEN <<HumidityLow>>
         ELSE <<>>
    ELSE <<>>

\* intensity >= 20
speedOver20_Inclusive(i) ==
  i.t = "number" /\ i.v.meters * (1000 \div 20) >= i.v.ms

\* intensity > 20 for a speed meters / (ms / 1000):
\* meters * 1000 > 20 * ms, with both sides divided by 20.
speedOver20(i) == i.t = "number" /\ i.v.meters * (1000 \div 20) > i.v.ms

movementAlerts(r, prev) ==
  IF intensityUnit(r, prev) = Str("m_s")
       /\ IsNumber(intensity(r, prev))
       /\ speedOver20(intensity(r, prev))
    THEN <<HighSpeed>>
    ELSE <<>>

axAbs(r) == MathAbs(ToNumber(Or(Get(r.accel, "x"), Num(0))))
ayAbs(r) == MathAbs(ToNumber(Or(Get(r.accel, "y"), Num(0))))
azAbs(r) == MathAbs(ToNumber(Or(Get(r.accel, "z"), Num(0))))

\* total > 15000, with total = sqrt(axAbs^2 + ayAbs^2 + azAbs^2)
totalOver15000(r) == Gt(SumSq(axAbs(r), ayAbs(r), azAbs(r)), 15000 * 15000)

tiltAlerts(r) == IF Lt(azAbs(r), 12000) THEN <<Tilted>> ELSE <<>>

shockAlerts(r) == IF totalOver15000(r) THEN <<Shock>> ELSE <<>>

\* the shock check made before the tilt check
accelAlerts_ShockFirst(r) ==
  IF Truthy(r.accel) THEN shockAlerts(r) \o tiltAlerts(r) ELSE <<>>

accelAlerts(r) ==
  IF Truthy(r.accel) THEN tiltAlerts(r) \o shockAlerts(r) ELSE <<>>

alerts(r, prev) ==
  temperatureAlerts(r) \o humidityAlerts(r) \o movementAlerts(r, prev)
    \o accelAlerts(r)

(***************************************************************************)
(* The enriched reading: { ...reading, intensity, intensityUnit, pitch,    *)
(* roll, alerts }.                                                         *)
(***************************************************************************)
enriched(r, prev) ==
  [t |-> "object",
   temperature |-> r.temperature,
   humidity |-> r.humidity,
   accel |-> r.accel,
   gyro |-> r.gyro,
   lat |-> r.lat,
   lon |-> r.lon,
   timestamp |-> r.timestamp,
   intensity |-> intensity(r, prev),
   intensityUnit |-> intensityUnit(r, prev),
   pitch |-> pitch(r),
   roll |-> roll(r),
   alerts |-> alerts(r, prev)]

\* The raw part of an enriched reading.
rawOf(e) ==
  [t |-> "object",
   temperature |-> e.temperature,
   humidity |-> e.humidity,
   accel |-> e.accel,
   gyro |-> e.gyro,
   lat |-> e.lat,
   lon |-> e.lon,
   timestamp |-> e.timestamp]

\* res.json(v): the reading as JSON.stringify writes it (NaN becomes null).
toJson(e) ==
  IF e = Null THEN Null ELSE [e EXCEPT !.intensity = JsonNumber(e.intensity)]

(***************************************************************************)
(* State.  previousReading and latestReading are the two module-level      *)
(* slots; req and res are the request last handled and its response;       *)
(* inflight holds the requests accepted and not yet handled.  priorFix is  *)
(* a history variable: what the last ingest read of previousReading        *)
(* (whether it was set, its lat, lon and timestamp).                       *)
(***************************************************************************)
fixOf(prev) ==
  IF Truthy(prev)
    THEN [t |-> "object", lat |-> prev.lat, lon |-> prev.lon,
          timestamp |-> prev.timestamp]
    ELSE Null

PostOp == "POST /api/readings"
GetOp == "GET /api/latest"

Init ==
  /\ previousReading = Null
  /\ latestReading = Null
  /\ req = [op |-> "none"]
  /\ res = [status |-> 0]
  /\ priorFix = Null
  /\ inflight = {}

\* the body used as it arrived, without the || {} default
bodyOf_NoDefault(b) == b

\* const body = req.body || {}
bodyOf(b) == Or(b, EmptyObject)

\* Reading a property of undefined or null throws a TypeError, which the
\* handler's catch turns into the 400 response.
throws(body) == body.t \in {"undefined", "null"}

\* the handler with previousReading assigned before the enrichment reads it
postReadings_PreviousFirst(b, now) ==
  LET r == reading(bodyOf(b), now)
  IN  /\ req' = [op |-> PostOp, body |-> b]
      /\ previousReading' = r
      /\ latestReading' = enriched(r, r)
      /\ priorFix' = fixOf(previousReading)
      /\ res' = [status |-> 200, json |-> [ok |-> TRUE]]

\* the handler enriching against the sample an earlier handler had read,
\* as when its read and its write are separated by another ingest
postReadings_StaleRead(b, now) ==
  LET r == reading(bodyOf(b), now)
  IN  /\ req' = [op |-> PostOp, body |-> b]
      /\ previousReading' = r
      /\ latestReading' = enriched(r, priorFix)
      /\ priorFix' = fixOf(previousReading)
      /\ res' = [status |-> 200, json |-> [ok |-> TRUE]]

\* app.post('/api/readings', ...) run to completion on request body b at
\* Date.now() = now.
postReadings(b, now) ==
  LET body == bodyOf(b)
      r == reading(body, now)
  IN  /\ req' = [op |-> PostOp, body |-> b]
      /\ IF throws(body)
           THEN /\ res' = [status |-> 400,
                           json |-> [ok |-> FALSE, error |-> "Invalid payload"]]
                /\ UNCHANGED <<previousReading, latestReading, priorFix>>
           ELSE /\ latestReading' = enriched(r, previousReading)
                /\ previousReading' = r
                /\ priorFix' = fixOf(previousReading)
                /\ res' = [status |-> 200, json |-> [ok |-> TRUE]]

\* the query answering with the raw sample instead of the enriched one
getLatest_ReturnsPrevious ==
  /\ req' = [op |-> GetOp]
  /\ res' = [status |-> 200, json |-> [ok |-> TRUE, data |-> previousReading]]
  /\ UNCHANGED <<previousReading, latestReading, priorFix>>

\* app.get('/api/latest', ...)
getLatest ==
  /\ req' = [op |-> GetOp]
  /\ res' = [status |-> 200,
             json |-> [ok |-> TRUE,
                       data |-> IF ~Truthy(latestReading) THEN Null
                                ELSE toJson(latestReading)]]
  /\ UNCHANGED <<previousReading, latestReading, priorFix>>

(***************************************************************************)
(* Inputs.  A request body is what express.json hands the handler: absent  *)
(* (undefined), an array, or an object; a missing key reads as undefined.  *)
(***************************************************************************)
Body(temperature, humidity, accel, gyro, lat, lon) ==
  [t |-> "object", temperature |-> temperature, humidity |-> humidity,
   accel |-> accel, gyro |-> gyro, lat |-> lat, lon |-> lon]

Text == Str("n/a")

\* ms on the clock when a quarter of a great circle is covered from time 0 at
\* exactly 20 m/s
SlowNow == haversineDistanceMeters(0, 0, 0, 90) * (1000 \div 20)

Times == (0 .. MaxNow) \cup {SlowNow}

Lats == {Undef} \cup {Num(90 * k) : k \in 0 .. MaxQuarter}
Lons == {Undef} \cup {Num(90 * k) : k \in 0 .. MaxQuarter + 1}

Impact == Vec(Num(20000), Num(0), Num(0))

\* bodies without a usable structure, and a few objects
StructBodies ==
  {Undef, Arr, EmptyObject}
    \cup {Body(tp, Undef, a, Undef, g[1], g[2]) :
            tp \in {Undef, Num(51)},
            a \in {Undef, Impact, Vec(Num(100), Undef, Undef)},
            g \in {<<Undef, Undef>>, <<Num(0), Num(0)>>, <<Num(0), Num(90)>>}}

\* bodies around the alert thresholds: each category alone, then together
AlertBodies ==
  {Body(tp, Undef, Undef, Undef, Undef, Undef) :
     tp \in {Text, Num(-1), Num(0), Num(40), Num(41), Num(50), Num(51)}}
    \cup {Body(Undef, h, Undef, Undef, Undef, Undef) :
            h \in {Text, Num(19), Num(20), Num(90), Num(91)}}
    \cup {Body(Undef, Undef, a, Undef, Undef, Undef) :
            a \in {Vec(Num(0), Num(0), Num(12000)),
                   Vec(Num(9000), Num(0), Num(-12000)),
                   Vec(Num(9000), Num(1), Num(12000)),
                   Vec(Num(0), Num(0), Num(11999))}}
    \cup {Body(tp, h, a, Undef, g[1], g[2]) :
            tp \in {Undef, Num(51)},
            h \in {Undef, Num(91)},
            a \in {Undef, Impact},
            g \in {<<Undef, Undef>>, <<Num(0), Num(0)>>, <<Num(0), Num(90)>>}}

\* positions on the 90-degree grid, with and without an accelerometer sample
GpsBodies ==
  {Body(Undef, Undef, a, Undef, la, lo) :
     a \in {Undef, Impact}, la \in Lats, lo \in Lons}

\* the same instant, or the instant at which a quarter circle is 20 m/s
GpsTimes == {0, SlowNow}

\* a few positions, for every reading of the clock
ClockBodies ==
  {Body(Undef, Undef, Undef, Undef, la, lo) :
     la \in {Undef, Num(0), Num(90)}, lo \in {Undef, Num(0), Num(90)}}

ClockTimes == Times \cup {SlowNow + 1}

\* accel and gyro values of every shape JSON can carry
AccelValues ==
  {Undef, Null, Num(0), Str(""), Bool(FALSE),
   Num(5), Text, Bool(TRUE), Arr, EmptyObject,
   Vec(Text, Num(0), Num(0)),
   Vec(Undef, Undef, Num(20000)),
   Vec(Num(100), Undef, Undef),
   Vec(Num(100), Num(0), Undef),
   Vec(Num(0), Num(0), Text),
   Vec(Num(0), Num(0), Num(0)),
   Vec(Num(0), Num(0), Num(16384)),
   Impact}

AccelBodies ==
  {Body(Undef, Undef, a, Undef, g[1], g[2]) :
     a \in AccelValues, g \in {<<Undef, Undef>>, <<Num(0), Num(0)>>}}
    \cup {Body(Undef, Undef, a, gy, Undef, Undef) :
            a \in {Undef, Impact},
            gy \in {Null, Num(0), Num(7), Text, EmptyObject,
                    Vec(Num(1), Num(2), Num(3))}}

ConcBodies ==
  {Undef,
   Body(Undef, Undef, Undef, Undef, Num(0), Num(0)),
   Body(Undef, Undef, Impact, Undef, Num(0), Num(90))}

ConcTimes == {0, SlowNow}

(***************************************************************************)
(* Actions.  A handler has no await: Node runs it to completion before the *)
(* next callback, so each handler is one step.                             *)
(***************************************************************************)
Ingest(b, now) == postReadings(b, now) /\ UNCHANGED inflight

Latest == getLatest /\ UNCHANGED inflight

\* a request is accepted while others wait for their callback
Arrive(id, op, b) ==
  /\ Cardinality(inflight) < MaxInflight
  /\ \A m \in inflight : m.id # id
  /\ inflight' = inflight \cup {[id |-> id, op |-> op, body |-> b]}
  /\ UNCHANGED <<previousReading, latestReading, req, res, priorFix>>

\* the event loop runs the handler of one waiting request
Serve(m, now) ==
  /\ m \in inflight
  /\ inflight' = inflight \ {m}
  /\ IF m.op = PostOp THEN postReadings(m.body, now) ELSE getLatest

NextStruct ==
  \/ \E b \in StructBodies, now \in Times : Ingest(b, now)
  \/ Latest

NextAlerts ==
  \/ \E b \in AlertBodies, now \in Times : Ingest(b, now)
  \/ Latest

NextGps ==
  \/ \E b \in GpsBodies, now \in GpsTimes : Ingest(b, now)
  \/ Latest

NextClock ==
  \/ \E b \in ClockBodies, now \in ClockTimes : Ingest(b, now)
  \/ Latest

NextAccel ==
  \/ \E b \in AccelBodies, now \in Times : Ingest(b, now)
  \/ Latest

NextConc ==
  \/ \E id \in 1 .. MaxInflight, b \in ConcBodies : Arrive(id, PostOp, b)
  \/ \E id \in 1 .. MaxInflight : Arrive(id, GetOp, Undef)
  \/ \E m \in inflight, now \in ConcTimes : Serve(m, now)

Spec == Init /\ [][NextStruct]_vars
SpecAlerts == Init /\ [][NextAlerts]_vars
SpecGps == Init /\ [][NextGps]_vars
SpecAccel == Init /\ [][NextAccel]_vars
SpecClock == Init /\ [][NextClock]_vars
SpecConc == Init /\ [][NextConc]_vars

(***************************************************************************)
(* Properties.                                                             *)
(***************************************************************************)
\* a request body that is absent or is not an object/map
Structureless(b) == b.t # "object"

\* the reading an empty object is coerced to, stamped ts
AllAbsent(ts) ==
  [t |-> "object", temperature |-> Null, humidity |-> Null, accel |-> Null,
   gyro |-> Null, lat |-> Null, lon |-> Null, timestamp |-> ts]

\* ... and its enrichment
AllAbsentEnriched(ts) ==
  [t |-> "object", temperature |-> Null, humidity |-> Null, accel |-> Null,
   gyro |-> Null, lat |-> Null, lon |-> Null, timestamp |-> ts,
   intensity |-> Null, intensityUnit |-> Null, pitch |-> Null, roll |-> Null,
   alerts |-> <<>>]

C2_State ==
  /\ req.op = PostOp => res = [status |-> 200, json |-> [ok |-> TRUE]]
  /\ req.op = GetOp =>
       /\ res.status = 200
       /\ res.json.ok
       /\ previousReading = Null => res.json.data = Null
       /\ previousReading # Null =>
            /\ res.json.data
                 = [enriched(previousReading, priorFix) EXCEPT
                      !.intensity = IF @ = NaN THEN Null ELSE @]
            /\ rawOf(res.json.data) = previousReading

\* C2, amended, on steps: a query changes neither previous nor latest.
C2_Step ==
  req'.op = GetOp =>
    (previousReading' = previousReading /\ latestReading' = latestReading)

C3_SlotsMoveTogether ==
  /\ (latestReading = Null) <=> (previousReading = Null)
  /\ latestReading # Null =>
       /\ rawOf(latestReading) = previousReading
       /\ latestReading = enriched(previousReading, priorFix)

\* C3 witness: a reading whose derived fields rest on both samples.
C3_Witness ==
  /\ latestReading # Null
  /\ priorFix # Null
  /\ latestReading.intensityUnit = Str("m_s")
  /\ latestReading.intensity.v.meters > 0

\* both samples of an ingest carry lat and lon
BothFixes(cur, prior) ==
  /\ cur.lat.t = "number"
  /\ cur.lon.t = "number"
  /\ prior # Null
  /\ prior.lat.t = "number"
  /\ prior.lon.t = "number"

\* accel is present with a numeric x
NumericX(a) == a.t = "object" /\ "x" \in DOMAIN a /\ a.x.t = "number"

\* C4: with lat and lon present in the current and the previous sample the
\* unit is speed whatever accel holds; the unit is acceleration only when no
\* GPS intensity was computed and accel has a numeric x; otherwise intensity
\* and unit are both absent.
C4_GpsPriority ==
  latestReading # Null =>
    LET gps == BothFixes(previousReading, priorFix)
        acc == NumericX(previousReading.accel)
    IN  /\ gps => latestReading.intensityUnit = Str("m_s")
        /\ latestReading.intensityUnit = Str("m_s2") <=> (~gps /\ acc)
        /\ (~gps /\ ~acc) =>
             (latestReading.intensity = Null
                /\ latestReading.intensityUnit = Null)

\* C4 witness: a speed was derived although the sample carries accel.
C4_Witness ==
  /\ latestReading # Null
  /\ latestReading.accel = Impact
  /\ BothFixes(previousReading, priorFix)
  /\ latestReading.intensityUnit = Str("m_s")

\* an object with numeric x, y and z
WellFormedVector(v) ==
  /\ v.t = "object"
  /\ DOMAIN v = {"t", "x", "y", "z"}
  /\ v.x.t = "number" /\ v.y.t = "number" /\ v.z.t = "number"

InAlerts(e, a) == \E i \in DOMAIN e.alerts : e.alerts[i] = a

Falsy(v) ==
  \/ v.t \in {"undefined", "null"}
  \/ v = Num(0)
  \/ v = Str("")
  \/ v = Bool(FALSE)

TemperatureAlertSet == {ExtremeTemperature, HighTemperature, BelowFreezing}

\* C6: at most one temperature alert, chosen by strict comparisons: above 50
\* extremely high, else above 40 high, else below 0 freezing, none when the
\* temperature is absent or within [0, 40].
C6_TemperatureAlert ==
  latestReading # Null =>
    LET tp == latestReading.temperature
        got == {i \in DOMAIN latestReading.alerts :
                  latestReading.alerts[i] \in TemperatureAlertSet}
        said == {latestReading.alerts[i] : i \in got}
    IN  /\ Cardinality(got) <= 1
        /\ tp = Null => said = {}
        /\ tp # Null =>
             /\ tp.v > 50 => said = {ExtremeTemperature}
             /\ (tp.v > 40 /\ tp.v <= 50) => said = {HighTemperature}
             /\ tp.v < 0 => said = {BelowFreezing}
             /\ (tp.v >= 0 /\ tp.v <= 40) => said = {}

\* C6 witness: exactly 50 degrees, reported as high and not as extreme.
C6_Witness ==
  /\ latestReading # Null
  /\ latestReading.temperature = Num(50)
  /\ InAlerts(latestReading, HighTemperature)

\* the category of an alert in the fixed order
Rank(a) ==
  CASE a \in TemperatureAlertSet -> 1
    [] a \in {HumidityHigh, HumidityLow} -> 2
    [] a = HighSpeed -> 3
    [] a = Tilted -> 4
    [] a = Shock -> 5

\* C7: the alerts are a duplicate-free subsequence of temperature, humidity,
\* movement, tilt, shock; an accel with |z| < 12000 and magnitude above 15000
\* yields tilt and shock, tilt first.
C7_AlertOrder ==
  latestReading # Null =>
    LET al == latestReading.alerts
        a == latestReading.accel
    IN  /\ \A i, j \in DOMAIN al : i < j => Rank(al[i]) < Rank(al[j])
        /\ (WellFormedVector(a)
              /\ a.z.v < 12000 /\ a.z.v > -12000
              /\ a.x.v * a.x.v + a.y.v * a.y.v + a.z.v * a.z.v
                   > 15000 * 15000)
             => \E i, j \in DOMAIN al :
                  i < j /\ al[i] = Tilted /\ al[j] = Shock

\* C7 witness: all five categories at once.
C7_Witness ==
  /\ latestReading # Null
  /\ latestReading.accel = Impact
  /\ Len(latestReading.alerts) = 5

\* C8: the movement alert is present exactly when the unit is speed and the
\* speed is above 20 m/s (meters * 1000 / ms > 20, that is meters * 50 > ms);
\* hence never on a first ingest, never when the
\* current or the immediately preceding sample lacks lat or lon, never on an
\* accelerometer intensity.
C8_MovementAlert ==
  latestReading # Null =>
    LET fast ==
          /\ latestReading.intensityUnit = Str("m_s")
          /\ latestReading.intensity.v.meters * 50
               > latestReading.intensity.v.ms
    IN  /\ InAlerts(latestReading, HighSpeed) <=> fast
        /\ InAlerts(latestReading, HighSpeed) =>
             /\ BothFixes(previousReading, priorFix)
             /\ latestReading.intensityUnit # Str("m_s2")

\* C8 witness: the alert raised for two fixes more than 1 ms apart.
C8_Witness ==
  /\ latestReading # Null
  /\ InAlerts(latestReading, HighSpeed)
  /\ latestReading.intensity.v.ms > 1

\* C10: the GPS branch divides by max(1, current - previous timestamp) ms, at
\* least 1 also when the clock stood still or went back, and the intensity
\* is the distance over that time, not negative.
C10_ElapsedFloor ==
  (latestReading # Null /\ latestReading.intensityUnit = Str("m_s")) =>
    LET i == latestReading.intensity.v
        elapsed == previousReading.timestamp - priorFix.timestamp
    IN  /\ i.ms >= 1
        /\ i.ms = (IF elapsed > 1 THEN elapsed ELSE 1)
        /\ i.meters >= 0
        /\ i.meters
             = haversineDistanceMeters(priorFix.lat.v, priorFix.lon.v,
                                       previousReading.lat.v,
                                       previousReading.lon.v)

\* C10 witness: a speed computed although the clock went back.
C10_Witness ==
  /\ latestReading # Null
  /\ latestReading.intensityUnit = Str("m_s")
  /\ previousReading.timestamp < priorFix.timestamp
  /\ latestReading.intensity.v.meters > 0
  /\ latestReading.intensity.v.ms = 1

\* C9, on steps: previous and latest change only together, in the handler of
\* one waiting ingest, and the new latest is derived from the new previous
\* and the previous of the state the handler started in.
C9_Step ==
  (previousReading' # previousReading \/ latestReading' # latestReading) =>
    \E m \in inflight :
      /\ m.op = PostOp
      /\ inflight' = inflight \ {m}
      /\ req' = [op |-> PostOp, body |-> m.body]
      /\ previousReading'
           = reading(bodyOf(m.body), previousReading'.timestamp)
      /\ latestReading' = enriched(previousReading', previousReading)

\* C9, on states: the answer of a query is the latest that belongs to the
\* current previous.
C9_State ==
  /\ (latestReading = Null) <=> (previousReading = Null)
  /\ latestReading # Null => rawOf(latestReading) = previousReading
  /\ req.op = GetOp =>
       /\ latestReading = Null => res.json.data = Null
       /\ latestReading # Null =>
            /\ rawOf(res.json.data) = previousReading
            /\ res.json.data.alerts = latestReading.alerts
            /\ res.json.data.intensityUnit = latestReading.intensityUnit

\* C9: with any number of requests waiting, each ingest reads previous,
\* enriches and writes latest and previous in one step, and no query sees a
\* latest that does not belong to the current previous.
C9_HandlersAreAtomic == []C9_State /\ [][C9_Step]_vars

\* C9 witness: an ingest was handled while another ingest was waiting, and
\* its speed rests on the sample accepted just before it.
C9_Witness ==
  /\ req.op = PostOp
  /\ \E m \in inflight : m.op = PostOp
  /\ latestReading # Null
  /\ latestReading.intensityUnit = Str("m_s")
  /\ InAlerts(latestReading, HighSpeed)

====
